---------------------------- MODULE Spec2Model ----------------------------
(***************************************************************************)
(* Chunked raster threshold (raster_threshold_chunked.py).                 *)
(*                                                                         *)
(* The script samples the first block of a raster to guess the value       *)
(* scale, derives a native threshold, then streams every block of the      *)
(* source through   mask = (data >= thr_native)   into a uint8 output      *)
(* raster, optionally decimating each block by an integer factor.          *)
(*                                                                         *)
(* Numbers.  Pixel values, data_max and thresholds are decimal numbers.    *)
(* A decimal d >= 0 is the record [w |-> whole part, n |-> fraction in     *)
(* units of 10^-9]; pixel values have at most six decimals.  A threshold   *)
(* carries in addition the sign e of the rounding error of the double      *)
(* product threshold * scale (0.07 * 100.0 is 7.000000000000001 in IEEE    *)
(* doubles, 0.57 * 100.0 is 56.99999999999999).                            *)
(***************************************************************************)
EXTENDS Integers, Sequences, FiniteSets

\* ------------------------------------------------------------- bounds
MaxHeight == 4
MaxWidth  == 4
MaxOverview == 3

\* ------------------------------------------------------------ decimals
Giga == 10^9
Mega == 10^6
Kilo == 10^3

Dec(whole, nano) == [w |-> whole, n |-> nano]
\* an integer value
Whole(k) == Dec(k, 0)
\* a value given in millionths above a whole number
Micro(whole, millionths) == Dec(whole, millionths * Kilo)
\* "no value" (Python None) for decimal-typed variables
NoDec == Dec(-1, 0)

DecLess(a, b) == a.w < b.w \/ (a.w = b.w /\ a.n < b.n)
DecLeq(a, b)  == a.w < b.w \/ (a.w = b.w /\ a.n <= b.n)

DecCarry(whole, nano) == Dec(whole + (nano \div Giga), nano % Giga)
DecAdd(a, b) == DecCarry(a.w + b.w, a.n + b.n)
\* b - a for a <= b
DecSub(b, a) ==
    IF b.n >= a.n THEN Dec(b.w - a.w, b.n - a.n)
    ELSE Dec(b.w - a.w - 1, b.n + Giga - a.n)
\* d * g / 1000 for a decimal d >= 0 of at most six decimals, 0 <= g < 1000
DecMulFrac(d, g) ==
    LET wg == d.w * g
        mg == (d.n \div Kilo) * g
    IN  DecCarry(wg \div Kilo, (wg % Kilo) * Mega + mg)

\* ------------------------------------------------------- source raster
\* The 4x4 reference raster.
Example ==
    << <<0, 20, 40, 60>>,
       <<80, 100, 0, 20>>,
       <<40, 60, 80, 100>>,
       <<0, 0, 0, 0>> >>

\* Constant rasters, one per value around the scale bucket bounds.
Uniform ==
    << Whole(1), Micro(1, 1), Whole(110), Micro(110, 1),
       Whole(11000), Micro(11000, 1), Whole(50000) >>

\* Raster ids: 1..Len(Uniform) are the constant rasters.
ExampleImg  == Len(Uniform) + 1
FractionImg == Len(Uniform) + 2
FixedImg    == Len(Uniform) + 3

\* Stored value of band 1 at (row, col) of raster img (0-based).
Pixel(img, row, col) ==
    IF img = ExampleImg
    THEN Whole(Example[(row % Len(Example)) + 1][(col % Len(Example)) + 1])
    ELSE IF img = FractionImg THEN Dec(((row + col) % 5) \div 4, (((row + col) % 5) % 4) * 250 * Mega)
    ELSE IF img = FixedImg THEN Whole(((3 * row + col) % 5) * 2500)
    ELSE Uniform[img]

\* nodata value of a raster without one
NoNodata == Dec(-2, 0)

\* The dataset mask: a pixel is invalid when it stores the nodata value.
IsValid(s, v) == v # s.nodata

Window(col_off, row_off, width, height) ==
    [col_off |-> col_off, row_off |-> row_off, width |-> width, height |-> height]
NoWindow == Window(-1, -1, 0, 0)

Min(a, b) == IF a <= b THEN a ELSE b
Max(a, b) == IF a >= b THEN a ELSE b
CeilDiv(a, b) == (a + b - 1) \div b

\* src.block_windows(1): the blocks in row-major order, edge blocks clipped.
NumBlocks(s) ==
    IF s.height = 0 \/ s.width = 0 THEN 0
    ELSE CeilDiv(s.height, s.bh) * CeilDiv(s.width, s.bw)
BlockWindow(s, j) ==
    LET per_row == CeilDiv(s.width, s.bw)
        bi == (j - 1) \div per_row
        bj == (j - 1) % per_row
    IN  Window(bj * s.bw, bi * s.bh,
               Min(s.bw, s.width - bj * s.bw), Min(s.bh, s.height - bi * s.bh))
block_windows(s) == [j \in 1..NumBlocks(s) |-> BlockWindow(s, j)]

\* src.read(1, window=w, out_shape=(height, width), resampling=nearest):
\* row-major values, output cell (i, k) sampling the source pixel under its
\* centre.
SampleAt(i, size, out) == ((2 * i + 1) * size) \div (2 * out)
Read(s, w, height, width) ==
    [p \in 1..(height * width) |->
        Pixel(s.img,
              w.row_off + SampleAt((p - 1) \div width, w.height, height),
              w.col_off + SampleAt((p - 1) % width, w.width, width))]

\* --------------------------------------------------- infer_threshold_value
\* arr.compressed(): the valid values of the sample, in reading order.
RECURSIVE Compressed(_, _)
Compressed(s, a) ==
    IF a = << >> THEN << >>
    ELSE IF IsValid(s, Head(a)) THEN << Head(a) >> \o Compressed(s, Tail(a))
    ELSE Compressed(s, Tail(a))

RECURSIVE Insert(_, _)
Insert(v, sorted) ==
    IF sorted = << >> THEN << v >>
    ELSE IF DecLeq(v, Head(sorted)) THEN << v >> \o sorted
    ELSE << Head(sorted) >> \o Insert(v, Tail(sorted))
RECURSIVE Sort(_)
Sort(a) == IF a = << >> THEN << >> ELSE Insert(Head(a), Sort(Tail(a)))

\* The percentile taken of the sample, in thousandths (99.9).
PerMille == 999

\* np.nanpercentile(valid, 99.9): linear interpolation between the two order
\* statistics around position 0.999 * (n - 1).
NanPercentile(valid) ==
    LET sorted == Sort(valid)
        pos == PerMille * (Len(valid) - 1)
        lo  == (pos \div Kilo) + 1
        g   == pos % Kilo
    IN  IF g = 0 THEN sorted[lo]
        ELSE DecAdd(sorted[lo], DecMulFrac(DecSub(sorted[lo + 1], sorted[lo]), g))

DataMax(valid) == IF Len(valid) = 0 THEN Whole(1) ELSE NanPercentile(valid)

\* ScaleOf with the bucket bounds excluded (< for <=).
ScaleOfStrict(dm) ==
    IF DecLess(dm, Whole(1)) THEN 1
    ELSE IF DecLess(dm, Whole(110)) THEN 100
    ELSE IF DecLess(dm, Whole(11000)) THEN 10000
    ELSE 1

\* The scale buckets, first match wins.
ScaleOf(dm) ==
    IF DecLeq(dm, Whole(1)) THEN 1
    ELSE IF DecLeq(dm, Whole(110)) THEN 100
    ELSE IF DecLeq(dm, Whole(11000)) THEN 10000
    ELSE 1

\* Sign of the rounding error of the double product threshold * scale against
\* the double nearest the exact product, threshold given in hundredths.
FloatMulErr(t, sc) ==
    IF sc = 100 THEN
        (IF t \in {7, 14, 28, 55, 56} THEN 1 ELSE IF t \in {29, 57, 58} THEN -1 ELSE 0)
    ELSE IF sc = 10000 THEN
        (IF t \in {7, 14, 17, 28, 34, 56, 68, 81} THEN 1 ELSE IF t \in {57, 69} THEN -1 ELSE 0)
    ELSE 0

\* thr_native = threshold * scale, threshold given in hundredths.
ThrNative(t, sc) ==
    [w |-> (t * sc) \div 100, n |-> ((t * sc) % 100) * (Giga \div 100),
     e |-> FloatMulErr(t, sc)]
NoThr == [w |-> -1, n |-> 0, e |-> 0]

\* ------------------------------------------------------------------ main
\* v >= t for a stored value v and a threshold t
GeqThr(v, t) ==
    IF v.w = t.w /\ v.n = t.n THEN t.e <= 0 ELSE DecLess(t, v)
\* MaskValue with a strict comparison (data > thr_native).
MaskValueStrict(v, t) == IF DecLess(t, v) /\ ~(v.w = t.w /\ v.n = t.n) THEN 1 ELSE 0
\* MaskValue with the comparison reversed (data <= thr_native).
MaskValueReversed(v, t) == IF GeqThr(v, t) /\ ~(v.w = t.w /\ v.n = t.n) THEN 0 ELSE 1
\* (data >= thr_native).astype(uint8), one element
MaskValue(v, t) == IF GeqThr(v, t) THEN 1 ELSE 0

Downsampling(ov) == ov # 0 /\ ov > 1

\* Output raster dimensions (profile height and width).
NewHeight(s, ov) == IF Downsampling(ov) THEN Max(1, s.height \div ov) ELSE s.height
NewWidth(s, ov)  == IF Downsampling(ov) THEN Max(1, s.width \div ov) ELSE s.width

\* TargetHeight rounding up.
TargetHeightCeil(w, ov) == IF Downsampling(ov) THEN CeilDiv(w.height, ov) ELSE w.height
\* Shape of the block as read: (height, width).
TargetHeight(w, ov) == IF Downsampling(ov) THEN w.height \div ov ELSE w.height
TargetWidth(w, ov)  == IF Downsampling(ov) THEN w.width \div ov ELSE w.width
\* Degenerate testing the height alone.
DegenerateHeightOnly(w, ov) == Downsampling(ov) /\ TargetHeight(w, ov) <= 0
Degenerate(w, ov) ==
    Downsampling(ov) /\ (TargetHeight(w, ov) <= 0 \/ TargetWidth(w, ov) <= 0)

\* DstWindow with the offsets of the source window kept when downsampling.
DstWindowSameOffset(w, ov, height, width) ==
    IF Downsampling(ov)
    THEN Window(w.col_off, w.row_off, width, height)
    ELSE w

\* DstWindow with the offsets of the window exchanged.
DstWindowSwapped(w, ov, height, width) ==
    IF Downsampling(ov)
    THEN Window(w.row_off \div ov, w.col_off \div ov, width, height)
    ELSE Window(w.row_off, w.col_off, w.width, w.height)

\* Where the mask of source block w goes in the output.
DstWindow(w, ov, height, width) ==
    IF Downsampling(ov)
    THEN Window(w.col_off \div ov, w.row_off \div ov, width, height)
    ELSE w

Cells(height, width) == (0..(height - 1)) \X (0..(width - 1))
InWindow(c, dw) ==
    /\ dw.row_off <= c[1] /\ c[1] < dw.row_off + dw.height
    /\ dw.col_off <= c[2] /\ c[2] < dw.col_off + dw.width
\* Index into a row-major block of window dw of the cell c
Offset(c, dw) == (c[1] - dw.row_off) * dw.width + (c[2] - dw.col_off) + 1
WithinGrid(dw, d) ==
    /\ dw.row_off >= 0 /\ dw.col_off >= 0
    /\ dw.row_off + dw.height <= d.height
    /\ dw.col_off + dw.width <= d.width

Unwritten == -1

\* ----------------------------------------------------------------- state
VARIABLES
    src,          \* the input raster: height, width, block shape, content
    thr,          \* --threshold, in hundredths
    overview,     \* --overview
    pc,           \* position of the script
    first_window, \* infer_threshold_value: the sampled window
    arr,          \* infer_threshold_value: the sample (<< >> when unbound)
    data_max, scale, thr_native,
    dst,          \* the output raster: state and dimensions
    dst_data,     \* the output raster: cell -> value written, or Unwritten
    j,            \* main loop: number of windows taken from block_windows
    w,            \* main loop: the current window
    data,         \* main loop: the block read (<< >> when unbound)
    data_of,      \* main loop: index of the block data was read from
    mask,         \* main loop: the thresholded block
    trace,        \* history: block reads, skips and writes in order
    written,      \* history: per dst.write call, the block and its window
    read_val      \* history: output cell -> value read for the cell written

vars == << src, thr, overview, pc, first_window, arr, data_max, scale,
           thr_native, dst, dst_data, j, w, data, data_of, mask, trace,
           written, read_val >>

inputs == << src, thr, overview >>
estimate == << data_max, scale, thr_native >>
sink == << dst, dst_data, written, read_val >>
loop == << j, w, data, data_of, mask >>

\* Rasters by content and nodata value: the reference raster, without nodata
\* value and with one below and one above the thresholds, and the rasters of
\* fractions and of fixed-point values.
Scenes ==
    [img : {ExampleImg}, nodata : {NoNodata, Whole(0), Whole(100)}]
    \cup [img : {FractionImg, FixedImg}, nodata : {NoNodata}]
\* The constant rasters.
UniformScenes == [img : 1..Len(Uniform), nodata : {NoNodata}]

\* Block shapes larger than the raster give the same windows as the raster's
\* own size: only shapes within it are enumerated.
Sources(scenes) ==
    { [height |-> h, width |-> wd, bh |-> bh, bw |-> bw,
       img |-> sc.img, nodata |-> sc.nodata] :
        h \in 0..MaxHeight, wd \in 0..MaxWidth,
        bh \in 1..MaxHeight, bw \in 1..MaxWidth, sc \in scenes }
InRaster(s) == s.bh <= Max(1, s.height) /\ s.bw <= Max(1, s.width)
SingleBlock(s) == s.bh = Max(1, s.height) /\ s.bw = Max(1, s.width)

\* --threshold values, in hundredths: 0.07 * 100.0 rounds up, 0.57 * 100.0
\* rounds down, 0.4 * 100.0 is exact.
Thresholds == {7, 40, 57}

\* The runs: every raster of Scenes in every block shape with every threshold,
\* and every constant raster as a single block with threshold 0.4.
Runs ==
    ({ s \in Sources(Scenes) : InRaster(s) } \X Thresholds)
    \cup ({ s \in Sources(UniformScenes) : SingleBlock(s) } \X {40})

Event(op, by, blk) == [op |-> op, by |-> by, blk |-> blk]

Init ==
    /\ \E r \in Runs : src = r[1] /\ thr = r[2]
    /\ overview \in 0..MaxOverview
    /\ pc = "infer"
    /\ first_window = NoWindow
    /\ arr = << >>
    /\ data_max = NoDec
    /\ scale = 0
    /\ thr_native = NoThr
    /\ dst = [state |-> "absent", height |-> 0, width |-> 0]
    /\ dst_data = [c \in {} |-> Unwritten]
    /\ j = 0
    /\ w = NoWindow
    /\ data = << >>
    /\ data_of = 0
    /\ mask = << >>
    /\ trace = << >>
    /\ written = << >>
    /\ read_val = [c \in {} |-> NoDec]

\* InferNoWindows without the check of first_window: the estimate falls back
\* to an unscaled threshold and the script goes on.
InferNoWindowsUnchecked ==
    /\ pc = "infer"
    /\ NumBlocks(src) = 0
    /\ data_max' = Whole(1)
    /\ scale' = 1
    /\ thr_native' = ThrNative(thr, 1)
    /\ pc' = "open"
    /\ UNCHANGED << inputs, first_window, arr, sink, loop, trace >>

\* infer_threshold_value: the block enumeration is empty.
InferNoWindows ==
    /\ pc = "infer"
    /\ NumBlocks(src) = 0
    /\ pc' = "raised"
    /\ UNCHANGED << inputs, first_window, arr, estimate, sink, loop, trace >>

\* infer_threshold_value: take the first window of the enumeration.
InferFirstWindow ==
    /\ pc = "infer"
    /\ NumBlocks(src) > 0
    /\ first_window' = block_windows(src)[1]
    /\ pc' = "sample"
    /\ UNCHANGED << inputs, arr, estimate, sink, loop, trace >>

\* infer_threshold_value: read the sample and take its robust maximum.
InferSample ==
    /\ pc = "sample"
    /\ arr' = Read(src, first_window, first_window.height, first_window.width)
    /\ data_max' = DataMax(Compressed(src, arr'))
    /\ trace' = Append(trace, Event("read", "infer", 1))
    /\ pc' = "scale"
    /\ UNCHANGED << inputs, first_window, scale, thr_native, sink, loop >>

\* infer_threshold_value: pick the scale, return the native threshold.
InferScale ==
    /\ pc = "scale"
    /\ scale' = ScaleOf(data_max)
    /\ thr_native' = ThrNative(thr, scale')
    /\ arr' = << >>
    /\ pc' = "open"
    /\ UNCHANGED << inputs, first_window, data_max, sink, loop, trace >>

\* main: create the output raster.
OpenDst ==
    /\ pc = "open"
    /\ dst' = [state |-> "open", height |-> NewHeight(src, overview),
               width |-> NewWidth(src, overview)]
    /\ dst_data' = [c \in Cells(dst'.height, dst'.width) |-> Unwritten]
    /\ read_val' = [c \in Cells(dst'.height, dst'.width) |-> NoDec]
    /\ pc' = "loop"
    /\ UNCHANGED << inputs, first_window, arr, estimate, written, loop, trace >>

\* main loop: a block whose decimated shape is empty is passed over.
LoopSkip ==
    /\ pc = "loop"
    /\ j < NumBlocks(src)
    /\ Degenerate(block_windows(src)[j + 1], overview)
    /\ j' = j + 1
    /\ w' = block_windows(src)[j + 1]
    /\ trace' = Append(trace, Event("skip", "main", j + 1))
    /\ UNCHANGED << inputs, pc, first_window, arr, estimate, sink, data, data_of, mask >>

\* LoopRead reading ahead: the next block is read before the block just read
\* has been thresholded and written.
LoopReadAhead ==
    /\ pc = "loop"
    /\ j < NumBlocks(src)
    /\ ~Degenerate(block_windows(src)[j + 1], overview)
    /\ j' = j + 1
    /\ w' = block_windows(src)[j + 1]
    /\ data' = Read(src, w', TargetHeight(w', overview), TargetWidth(w', overview))
    /\ data_of' = j + 1
    /\ trace' = Append(trace, Event("read", "main", j + 1))
    /\ pc' = IF j + 1 < NumBlocks(src) THEN "loop" ELSE "write"
    /\ UNCHANGED << inputs, first_window, arr, estimate, sink, mask >>

\* main loop: read the next block, decimated when downsampling.
LoopRead ==
    /\ pc = "loop"
    /\ j < NumBlocks(src)
    /\ ~Degenerate(block_windows(src)[j + 1], overview)
    /\ j' = j + 1
    /\ w' = block_windows(src)[j + 1]
    /\ data' = Read(src, w', TargetHeight(w', overview), TargetWidth(w', overview))
    /\ data_of' = j + 1
    /\ trace' = Append(trace, Event("read", "main", j + 1))
    /\ pc' = "write"
    /\ UNCHANGED << inputs, first_window, arr, estimate, sink, mask >>

\* main loop: threshold the block and write it to its destination window.
\* A window outside the output raster makes the write fail: the exception
\* leaves the with block of the output raster, which closes it.
LoopWrite ==
    /\ pc = "write"
    /\ mask' = [p \in 1..Len(data) |-> MaskValue(data[p], thr_native)]
    /\ LET dw == DstWindow(w, overview, TargetHeight(w, overview), TargetWidth(w, overview))
       IN  /\ written' = Append(written, [blk |-> j, window |-> dw])
           /\ IF WithinGrid(dw, dst)
              THEN /\ dst_data' = [c \in DOMAIN dst_data |->
                                     IF InWindow(c, dw) THEN mask'[Offset(c, dw)]
                                     ELSE dst_data[c]]
                   /\ read_val' = [c \in DOMAIN read_val |->
                                     IF InWindow(c, dw) THEN data[Offset(c, dw)]
                                     ELSE read_val[c]]
                   /\ trace' = Append(trace, Event("write", "main", j))
                   /\ pc' = "loop"
                   /\ UNCHANGED dst
              ELSE /\ pc' = "raised"
                   /\ dst' = [dst EXCEPT !.state = "closed"]
                   /\ UNCHANGED << dst_data, read_val, trace >>
    /\ UNCHANGED << inputs, first_window, arr, estimate, j, w, data, data_of >>

\* main: the enumeration is exhausted; the output raster is closed.
LoopEnd ==
    /\ pc = "loop"
    /\ j = NumBlocks(src)
    /\ dst' = [dst EXCEPT !.state = "closed"]
    /\ pc' = "done"
    /\ UNCHANGED << inputs, first_window, arr, estimate, dst_data, written,
                    read_val, loop, trace >>

Next ==
    \/ InferNoWindows
    \/ InferFirstWindow
    \/ InferSample
    \/ InferScale
    \/ OpenDst
    \/ LoopSkip
    \/ LoopRead
    \/ LoopWrite
    \/ LoopEnd

Spec == Init /\ [][Next]_vars

\* -------------------------------------------------------------- properties
Blocks == block_windows(src)
Disjoint(a, b) ==
    \/ a.row_off + a.height <= b.row_off \/ b.row_off + b.height <= a.row_off
    \/ a.col_off + a.width <= b.col_off \/ b.col_off + b.width <= a.col_off
\* The write calls whose window holds cell c
Covering(c) == { k \in DOMAIN written : InWindow(c, written[k].window) }
\* The script is past infer_threshold_value
Estimated == pc \in {"open", "loop", "write", "done"}

\* C1: without downsampling (overview 0 or 1), once the run is complete the
\* k-th write call wrote the k-th source block to the identical window of the
\* output raster, the output raster has the size of the source, no two written
\* windows overlap and every output cell lies in exactly one written window.
C1_FullResCoverage ==
    (pc = "done" /\ ~Downsampling(overview)) =>
        /\ dst.height = src.height /\ dst.width = src.width
        /\ Len(written) = NumBlocks(src)
        /\ \A k \in DOMAIN written :
               written[k] = [blk |-> k, window |-> Blocks[k]]
        /\ \A k1, k2 \in DOMAIN written :
               k1 # k2 => Disjoint(written[k1].window, written[k2].window)
        /\ \A c \in Cells(src.height, src.width) :
               /\ Cardinality(Covering(c)) = 1
               /\ dst_data[c] # Unwritten

\* C1 witness: a finished full-resolution run over at least two rows and two
\* columns of blocks, the last of them clipped.
C1_Witness ==
    /\ pc = "done" /\ overview = 1
    /\ src.height = 3 /\ src.width = 3 /\ src.bh = 2 /\ src.bw = 2
    /\ Len(written) = 4

ExampleMask ==
    << <<0, 0, 1, 1>>,
       <<1, 1, 0, 0>>,
       <<1, 1, 1, 1>>,
       <<0, 0, 0, 0>> >>
ExampleRun ==
    /\ src.img = ExampleImg /\ src.nodata = NoNodata
    /\ src.height = 4 /\ src.width = 4 /\ src.bh = 4 /\ src.bw = 4
    /\ thr = 40 /\ ~Downsampling(overview)

\* C2: every cell written holds 1 when the value read for it is at least the
\* native threshold of the run and 0 otherwise (a value equal to the threshold
\* gives 1), nothing but 0 and 1 is written, at full resolution the value read
\* for a cell is the source pixel at that cell; and the 4x4 single-block
\* reference raster with threshold 0.4 gives scale 100, native threshold 40 and
\* the reference mask.
C2_MaskIsThreshold ==
    /\ \A c \in DOMAIN dst_data :
           dst_data[c] # Unwritten =>
               /\ dst_data[c] \in {0, 1}
               /\ (dst_data[c] = 1) <=>
                      \/ DecLess(thr_native, read_val[c])
                      \/ (read_val[c].w = thr_native.w /\ read_val[c].n = thr_native.n
                          /\ thr_native.e <= 0)
               /\ ~Downsampling(overview) => read_val[c] = Pixel(src.img, c[1], c[2])
    /\ (ExampleRun /\ Estimated) =>
           /\ data_max = Whole(100) /\ scale = 100
           /\ thr_native = [w |-> 40, n |-> 0, e |-> 0]
    /\ (ExampleRun /\ pc = "done") =>
           \A c \in DOMAIN dst_data : dst_data[c] = ExampleMask[c[1] + 1][c[2] + 1]

\* C2 witness: the reference run is complete and wrote a 1 for a value equal to
\* the native threshold.
C2_Witness ==
    /\ ExampleRun /\ pc = "done"
    /\ read_val[<<0, 2>>] = Whole(40) /\ dst_data[<<0, 2>>] = 1

\* The first block of the enumeration holds no valid pixel
SampleAllInvalid ==
    \A row \in 0..(Blocks[1].height - 1), col \in 0..(Blocks[1].width - 1) :
        Pixel(src.img, row, col) = src.nodata

\* C3: the estimate puts data_max in one bucket, first match wins: at most 1.0
\* gives scale 1, else at most 110.0 gives 100, else at most 11000.0 gives
\* 10000, else 1; the values 1.0, 1.000001, 110.0, 110.000001, 11000.0,
\* 11000.000001 and 50000 give 1, 100, 100, 10000, 10000, 1 and 1; a sample
\* without a valid pixel gives data_max 1.0 and scale 1; and the native
\* threshold is the requested threshold times the scale.
C3_ScaleBuckets ==
    Estimated =>
        /\ scale = (CASE (data_max.w < 1 \/ data_max = Whole(1)) -> 1
                      [] ~(data_max.w < 1 \/ data_max = Whole(1))
                         /\ (data_max.w < 110 \/ data_max = Whole(110)) -> 100
                      [] ~(data_max.w < 110 \/ data_max = Whole(110))
                         /\ (data_max.w < 11000 \/ data_max = Whole(11000)) -> 10000
                      [] OTHER -> 1)
        /\ data_max = Whole(1) => scale = 1
        /\ data_max = Micro(1, 1) => scale = 100
        /\ data_max = Whole(110) => scale = 100
        /\ data_max = Micro(110, 1) => scale = 10000
        /\ data_max = Whole(11000) => scale = 10000
        /\ data_max = Micro(11000, 1) => scale = 1
        /\ data_max = Whole(50000) => scale = 1
        /\ SampleAllInvalid => (data_max = Whole(1) /\ scale = 1)
        /\ thr_native.w * 100 + thr_native.n \div (Giga \div 100) = thr * scale
        /\ thr_native.n % (Giga \div 100) = 0

\* C3 witness: a sample whose robust maximum is 110.0, the upper bound of the
\* percent bucket, was classified.
C3_Witness == Estimated /\ data_max = Whole(110) /\ scale = 100

\* C4: a source without block windows makes the run fail in the estimator, and
\* then the output raster has not been created or written; in every run the
\* output raster is created only after the estimate is made.
C4_EmptySourceFails ==
    /\ NumBlocks(src) = 0 =>
           /\ pc \in {"infer", "raised"}
           /\ dst.state = "absent" /\ DOMAIN dst_data = {}
           /\ written = << >> /\ trace = << >>
    /\ (NumBlocks(src) = 0 /\ pc = "infer") => ENABLED InferNoWindows
    /\ dst.state # "absent" => (thr_native # NoThr /\ scale # 0)
    /\ written # << >> => dst.state # "absent"

\* C4 witness: the run over a raster of height 0 has failed.
C4_Witness == pc = "raised" /\ src.height = 0 /\ src.width = 3

\* C5 (as claimed): nodata pixels take no part in the estimate, and no cell
\* whose value read is the nodata value of the source is written as 1.
C5_NodataExcluded ==
    /\ Estimated =>
           data_max = DataMax(Compressed(src,
                          Read(src, Blocks[1], Blocks[1].height, Blocks[1].width)))
    /\ \A c \in DOMAIN dst_data :
           (dst_data[c] # Unwritten /\ read_val[c] = src.nodata) => dst_data[c] = 0

MainReads == { p \in DOMAIN trace : trace[p].op = "read" /\ trace[p].by = "main" }
InferReads == { p \in DOMAIN trace : trace[p].by = "infer" }
Area(win) == win.height * win.width

\* C6: the estimator reads the first block of the enumeration and no other,
\* once; in the loop every read of a block is followed at once by the write of
\* that block and every write follows the read of its block; blocks are read in
\* enumeration order, each at most once; and the sample of the estimator and
\* the block of the loop are never held together, each holding one block.
C6_OneBlockInFlight ==
    /\ \A p \in InferReads : p = 1 /\ trace[p] = Event("read", "infer", 1)
    /\ pc \in {"scale", "open", "loop", "write", "done"} => Cardinality(InferReads) = 1
    /\ \A p \in MainReads :
           IF p = Len(trace) THEN pc = "write" /\ data_of = trace[p].blk
           ELSE trace[p + 1] = Event("write", "main", trace[p].blk)
    /\ \A p \in DOMAIN trace :
           trace[p].op = "write" =>
               (p > 1 /\ trace[p - 1] = Event("read", "main", trace[p].blk))
    /\ \A p, q \in MainReads : p < q => trace[p].blk < trace[q].blk
    /\ ~(arr # << >> /\ data # << >>)
    /\ arr # << >> => (pc = "scale" /\ Len(arr) = Area(Blocks[1]))
    /\ data # << >> =>
           /\ data_of \in 1..j
           /\ Len(data) <= Area(Blocks[data_of])
           /\ \A p \in MainReads : trace[p].blk <= data_of

\* C6 witness: a finished run over four blocks, read and written in turn.
C6_Witness ==
    /\ pc = "done" /\ NumBlocks(src) = 4
    /\ Len(trace) = 9
    /\ trace[6] = Event("read", "main", 3) /\ trace[7] = Event("write", "main", 3)

Hundredths == 0..100

\* C7: for the raster, downsample factor and scale of the run, a requested
\* threshold at least the one of the run gives a 1 only in cells where the run
\* wrote a 1, and a requested threshold at most the one of the run gives a 1 in
\* every cell where the run wrote a 1.
C7_ThresholdMonotone ==
    pc = "done" =>
        \A t2 \in Hundredths, c \in DOMAIN dst_data :
            dst_data[c] # Unwritten =>
                /\ (t2 >= thr /\ MaskValue(read_val[c], ThrNative(t2, scale)) = 1)
                       => dst_data[c] = 1
                /\ (t2 <= thr /\ dst_data[c] = 1)
                       => MaskValue(read_val[c], ThrNative(t2, scale)) = 1

\* C7 witness: a finished run with threshold 0.40 wrote a 1 in a cell that
\* threshold 0.57 turns into 0.
C7_Witness ==
    /\ pc = "done" /\ thr = 40
    /\ \E c \in DOMAIN dst_data :
           dst_data[c] = 1 /\ MaskValue(read_val[c], ThrNative(57, scale)) = 0

\* The decimated shape of block k has an empty dimension
EmptyDecimated(k) ==
    Blocks[k].height \div overview = 0 \/ Blocks[k].width \div overview = 0
ExactMultiples ==
    \A k \in DOMAIN Blocks :
        Blocks[k].height % overview = 0 /\ Blocks[k].width % overview = 0

\* C8: when downsampling, every write call of a block w uses the window at
\* floor(w.row_off / factor), floor(w.col_off / factor) of shape
\* floor(w.height / factor) x floor(w.width / factor); the windows of distinct
\* blocks never overlap; and when all block dimensions are multiples of the
\* factor, the finished run has written every cell of the output raster of
\* floor(height / factor) x floor(width / factor) exactly once.
C8_DecimatedWindows ==
    Downsampling(overview) =>
        /\ \A k \in DOMAIN written :
               LET b == Blocks[written[k].blk]
               IN  written[k].window =
                       Window(b.col_off \div overview, b.row_off \div overview,
                              b.width \div overview, b.height \div overview)
        /\ \A k1, k2 \in DOMAIN written :
               k1 # k2 =>
                   /\ written[k1].blk # written[k2].blk
                   /\ Disjoint(written[k1].window, written[k2].window)
        /\ \A c \in DOMAIN dst_data : Cardinality(Covering(c)) <= 1
        /\ (pc = "done" /\ ExactMultiples) =>
               /\ dst.height = src.height \div overview
               /\ dst.width = src.width \div overview
               /\ Len(written) = NumBlocks(src)
               /\ \A c \in Cells(src.height \div overview, src.width \div overview) :
                      Cardinality(Covering(c)) = 1 /\ dst_data[c] # Unwritten

\* C8 witness: a finished run with factor 2 over a 4x4 raster in 2x2 blocks.
C8_Witness ==
    /\ pc = "done" /\ overview = 2
    /\ src.height = 4 /\ src.width = 4 /\ src.bh = 2 /\ src.bw = 2
    /\ Len(written) = 4
    /\ written[4].window = Window(1, 1, 1, 1)

Has(op, by, k) == \E p \in DOMAIN trace : trace[p] = Event(op, by, k)
\* What C9 says of the blocks the loop has taken, but for the reads of the
\* estimator.
C9_SkipInLoop ==
    /\ pc # "raised"
    /\ pc = "done" => j = NumBlocks(src)
    /\ (pc = "loop" /\ j < NumBlocks(src)) => ENABLED (LoopSkip \/ LoopRead)
    /\ \A k \in 1..j :
           IF EmptyDecimated(k)
           THEN /\ Has("skip", "main", k)
                /\ ~Has("read", "main", k) /\ ~Has("write", "main", k)
                /\ \A i \in DOMAIN written : written[i].blk # k
           ELSE /\ ~Has("skip", "main", k)
                /\ Has("read", "main", k)
                /\ (k < j \/ pc # "write") =>
                       (Has("write", "main", k) /\ \E i \in DOMAIN written : written[i].blk = k)
    /\ \A c \in DOMAIN dst_data :
           dst_data[c] # Unwritten <=>
               \E i \in DOMAIN written :
                   ~EmptyDecimated(written[i].blk) /\ InWindow(c, written[i].window)

\* C9 (as claimed): when downsampling, a block whose decimated shape has an
\* empty dimension is never read, by the estimator or by the loop, and never
\* written; the loop goes on without error to the end of the enumeration; the
\* other blocks are read and written, never skipped.
C9_SkippedNeverRead ==
    (Downsampling(overview) /\ NumBlocks(src) > 0) =>
        /\ C9_SkipInLoop
        /\ \A p \in DOMAIN trace :
               trace[p].op = "read" => ~EmptyDecimated(trace[p].blk)

\* C9 (amended): when downsampling, a block whose decimated shape has an empty
\* dimension is never read by the loop and never written, and only the cells of
\* the windows of the other blocks are written; the loop goes on without error
\* to the end of the enumeration; the other blocks are read and written, never
\* skipped.  The estimator still reads the first block of the enumeration,
\* whatever its decimated shape.
C9_SkippedInLoop ==
    (Downsampling(overview) /\ NumBlocks(src) > 0) =>
        /\ C9_SkipInLoop
        /\ \A p \in DOMAIN trace :
               (trace[p].op = "read" /\ EmptyDecimated(trace[p].blk)) =>
                   (p = 1 /\ trace[p] = Event("read", "infer", 1))

\* C9 witness: a finished run with factor 2 over a 3x3 raster in 2x2 blocks
\* skipped three blocks, the first among them not (read by the estimator and
\* by the loop), and left all but one cell of the output unwritten.
C9_Witness ==
    /\ pc = "done" /\ overview = 2
    /\ src.height = 3 /\ src.width = 3 /\ src.bh = 2 /\ src.bw = 2
    /\ Has("skip", "main", 2) /\ Has("skip", "main", 3) /\ Has("skip", "main", 4)
    /\ Len(written) = 1

\* C10: every window handed to the output raster lies inside it and no write
\* fails, for every factor, every block shape and every raster size; the output
\* raster is max(1, floor(height / factor)) x max(1, floor(width / factor))
\* when downsampling and the size of the source otherwise.
C10_WritesWithinGrid ==
    /\ NumBlocks(src) > 0 => pc # "raised"
    /\ \A k \in DOMAIN written :
           LET dw == written[k].window
           IN  /\ 0 <= dw.row_off /\ dw.row_off + dw.height <= dst.height
               /\ 0 <= dw.col_off /\ dw.col_off + dw.width <= dst.width
               /\ dw.height >= 1 /\ dw.width >= 1
    /\ dst.state # "absent" =>
           IF overview > 1
           THEN /\ dst.height = (IF src.height \div overview >= 1 THEN src.height \div overview ELSE 1)
                /\ dst.width = (IF src.width \div overview >= 1 THEN src.width \div overview ELSE 1)
           ELSE dst.height = src.height /\ dst.width = src.width

\* C10 witness: a finished run with factor 2 over a 3x3 raster wrote its one
\* block, whose sides are no multiples of the factor, into the 1x1 output.
C10_Witness ==
    /\ pc = "done" /\ overview = 2
    /\ src.height = 3 /\ src.width = 3 /\ src.bh = 3 /\ src.bw = 3
    /\ written = << [blk |-> 1, window |-> Window(0, 0, 1, 1)] >>
    /\ dst.height = 1 /\ dst.width = 1

=============================================================================
